---- MODULE Spec2Model ----
(***************************************************************************)
(* FrameForge backend: the POST /api/edit handler (backend/app/main.py),   *)
(* the provider resolver (services/factory.py) and the provider adapters   *)
(* (services/google_nano_banana.py, services/fal_editor.py).               *)
(*                                                                         *)
(* Python values are represented as follows.                               *)
(*   str            a sequence of one-character strings                    *)
(*   None           the one-element sequence <<"None">> (no str equals it) *)
(*   bytes          a sequence of integers 0..255                          *)
(*   an exception   its class name, "" when nothing was raised             *)
(*   Settings       a record; an attribute exists iff it is in DOMAIN      *)
(***************************************************************************)
EXTENDS Integers, Sequences, FiniteSets, TLC

VARIABLES environ, boot_environ, settings, req

vars == <<environ, boot_environ, settings, req>>

-----------------------------------------------------------------------------
(* Python str / Optional helpers *)

None == <<"None">>

\* Python truthiness of an Optional[str] / str / bytes / list value
Truthy(x) == x # None /\ x # <<>>

\* a or b
Or(a, b) == IF Truthy(a) THEN a ELSE b

LowerMap ==
  [A |-> "a", B |-> "b", C |-> "c", D |-> "d", E |-> "e", F |-> "f", G |-> "g",
   H |-> "h", I |-> "i", J |-> "j", K |-> "k", L |-> "l", M |-> "m", N |-> "n",
   O |-> "o", P |-> "p", Q |-> "q", R |-> "r", S |-> "s", T |-> "t", U |-> "u",
   V |-> "v", W |-> "w", X |-> "x", Y |-> "y", Z |-> "z"]

\* str.lower()
Lower(s) == [i \in 1..Len(s) |-> IF s[i] \in DOMAIN LowerMap THEN LowerMap[s[i]] ELSE s[i]]

IsSpace(c) == c \in {" ", "\t"}

RECURSIVE LStrip(_)
LStrip(s) == IF s # <<>> /\ IsSpace(Head(s)) THEN LStrip(Tail(s)) ELSE s

RECURSIVE RStrip(_)
RStrip(s) == IF s # <<>> /\ IsSpace(s[Len(s)]) THEN RStrip(SubSeq(s, 1, Len(s) - 1)) ELSE s

\* str.strip()
Strip(s) == RStrip(LStrip(s))

\* str.startswith(p)
StartsWith(s, p) == Len(s) >= Len(p) /\ SubSeq(s, 1, Len(p)) = p

\* s[n:]
DropFirst(s, n) == SubSeq(s, n + 1, Len(s))

\* the index of the first occurrence of character c in s, 0 when absent
IndexOf(s, c) ==
  IF \E i \in 1..Len(s) : s[i] = c
  THEN CHOOSE i \in 1..Len(s) : s[i] = c /\ \A j \in 1..(i - 1) : s[j] # c
  ELSE 0

\* sub in s
Contains(s, sub) ==
  \E i \in 1..(Len(s) - Len(sub) + 1) : SubSeq(s, i, i + Len(sub) - 1) = sub

-----------------------------------------------------------------------------
(* String constants of the program *)

S_google      == <<"g","o","o","g","l","e">>
S_nano_banana == <<"n","a","n","o","-","b","a","n","a","n","a">>
S_fal_colon   == <<"f","a","l",":">>
S_bearer_sp   == <<"b","e","a","r","e","r"," ">>
S_key_sp      == <<"k","e","y"," ">>
S_data_colon  == <<"d","a","t","a",":">>
S_semi_base64 == <<";","b","a","s","e","6","4">>
S_image_png   == <<"i","m","a","g","e","/","p","n","g">>
S_image_jpeg  == <<"i","m","a","g","e","/","j","p","e","g">>
S_image_slash == <<"i","m","a","g","e","/">>
S_text_plain  == <<"t","e","x","t","/","p","l","a","i","n">>

\* The model identifier is never inspected character by character: one atom.
DefaultModelId == <<"gemini-2.5-flash-image-preview">>

-----------------------------------------------------------------------------
(* config.py *)

\* os.getenv(name): None when the variable is unset
GetEnv(env, name) == IF name \in DOMAIN env THEN env[name] ELSE None

\* Settings(): the declared fields only, google_api_key read from the
\* environment variable of the same name (case-insensitive), else its default
\* None. The class declares neither fal_key nor gemini_api_key.
Settings(env) ==
  [google_api_key  |-> GetEnv(env, "GOOGLE_API_KEY"),
   google_model_id |-> DefaultModelId]

\* getattr on a pydantic model: an undeclared, unset attribute raises
HasAttr(s, f) == f \in DOMAIN s

\* settings.model_copy(update={field: value}): a new object, the original
\* untouched; the updated key is stored whether or not the class declares it
ModelCopy(s, field, value) ==
  [f \in (DOMAIN s) \cup {field} |-> IF f = field THEN value ELSE s[f]]

-----------------------------------------------------------------------------
(* main.py lines 58-67: the credential override *)

\* the token left of the Authorization header value (auth_header is truthy)
AuthToken(auth_header) ==
  LET token == Strip(auth_header) IN
  IF StartsWith(Lower(token), S_bearer_sp) THEN Strip(DropFirst(token, Len(S_bearer_sp)))
  ELSE IF StartsWith(Lower(token), S_key_sp) THEN Strip(DropFirst(token, Len(S_key_sp)))
  ELSE token

RequestSettings(base, auth_header) ==
  IF Truthy(auth_header)
  THEN LET token == AuthToken(auth_header) IN
       IF token # <<>> THEN ModelCopy(base, "fal_key", token) ELSE base
  ELSE base

-----------------------------------------------------------------------------
(* services/*.py: adapter construction and the resolver *)

Google == "GoogleNanoBananaEditor"
Fal    == "FalImageEditor"
Qwen   == "QwenEditor"
Kontext == "KontextProEditor"

NoEditor == [exc |-> "", cls |-> "", api_key |-> None, model_path |-> None, model_id |-> None]

Raised(e) == [NoEditor EXCEPT !.exc = e]

\* GoogleNanoBananaEditor.__init__: the `or` chain is evaluated left to right
\* and stops at the first truthy operand
GoogleInit(s, env) ==
  IF Truthy(s.google_api_key)
  THEN [NoEditor EXCEPT !.cls = Google, !.api_key = s.google_api_key,
                        !.model_id = Or(s.google_model_id, DefaultModelId)]
  ELSE IF ~HasAttr(s, "gemini_api_key")
  THEN Raised("AttributeError")
  ELSE [NoEditor EXCEPT !.cls = Google,
          !.api_key = Or(s.gemini_api_key,
                         Or(GetEnv(env, "GOOGLE_API_KEY"), GetEnv(env, "GEMINI_API_KEY"))),
          !.model_id = Or(s.google_model_id, DefaultModelId)]

\* FalImageEditor.__init__
FalInit(model_path, s, env) ==
  IF ~HasAttr(s, "fal_key")
  THEN Raised("AttributeError")
  ELSE [NoEditor EXCEPT !.cls = Fal, !.model_path = model_path,
                        !.api_key = Or(s.fal_key, GetEnv(env, "FAL_KEY"))]

\* the static table of factory.py
PROVIDERS == (S_google :> Google) @@ (S_nano_banana :> Google)

\* list_providers(): the static keys
list_providers == DOMAIN PROVIDERS

\* get_editor(provider_name, settings)
get_editor(provider_name, s, env) ==
  LET name == Strip(Or(provider_name, S_google)) IN
  IF StartsWith(Lower(name), S_fal_colon)
  THEN FalInit(DropFirst(name, IndexOf(name, ":")), s, env)
  ELSE LET key == Lower(name)
           cls == IF key \in DOMAIN PROVIDERS THEN PROVIDERS[key] ELSE Google
       IN IF cls = Google THEN GoogleInit(s, env) ELSE [NoEditor EXCEPT !.cls = cls]

-----------------------------------------------------------------------------
(* base64.b64decode(s), validate=False: binascii.a2b_base64 in its lenient  *)
(* mode. Characters outside the alphabet are skipped; a complete pad run    *)
(* ends the parse; a dangling quad is an error.                             *)

B64Chars ==
  <<"A","B","C","D","E","F","G","H","I","J","K","L","M","N","O","P",
    "Q","R","S","T","U","V","W","X","Y","Z","a","b","c","d","e","f",
    "g","h","i","j","k","l","m","n","o","p","q","r","s","t","u","v",
    "w","x","y","z","0","1","2","3","4","5","6","7","8","9","+","/">>

IsB64(c) == \E i \in 1..64 : B64Chars[i] = c

B64Val(c) == (CHOOSE i \in 1..64 : B64Chars[i] = c) - 1

\* st = [q |-> quad position, left |-> pending bits, pads |-> pads seen, out |-> bytes]
RECURSIVE B64Run(_, _, _)
B64Run(s, i, st) ==
  IF i > Len(s)
  THEN [ok |-> st.q = 0, data |-> st.out]
  ELSE IF s[i] = "="
  THEN IF st.q >= 2 /\ st.q + st.pads + 1 >= 4
       THEN [ok |-> TRUE, data |-> st.out]
       ELSE B64Run(s, i + 1, IF st.q >= 2 THEN [st EXCEPT !.pads = @ + 1] ELSE st)
  ELSE IF ~IsB64(s[i])
  THEN B64Run(s, i + 1, st)
  ELSE LET v == B64Val(s[i]) IN
       B64Run(s, i + 1,
         CASE st.q = 0 -> [q |-> 1, left |-> v, pads |-> 0, out |-> st.out]
           [] st.q = 1 -> [q |-> 2, left |-> v % 16, pads |-> 0,
                           out |-> Append(st.out, st.left * 4 + v \div 16)]
           [] st.q = 2 -> [q |-> 3, left |-> v % 4, pads |-> 0,
                           out |-> Append(st.out, st.left * 16 + v \div 4)]
           [] st.q = 3 -> [q |-> 0, left |-> 0, pads |-> 0,
                           out |-> Append(st.out, st.left * 64 + v)])

\* [ok |-> decoded without error, data |-> the bytes]
b64decode(s) == B64Run(s, 1, [q |-> 0, left |-> 0, pads |-> 0, out |-> <<>>])

-----------------------------------------------------------------------------
(* Results of edit_image: (data, mime) or a raised exception.  data is      *)
(* tagged with its Python type: "bytes" (v a byte buffer) or "list" (v a    *)
(* list of byte buffers).                                                   *)

Bytes(b) == [t |-> "bytes", v |-> b]
List(l)  == [t |-> "list", v |-> l]
NoData   == [t |-> "none", v |-> <<>>]

Returns(data, mime) == [exc |-> "", msg |-> "", data |-> data, mime |-> mime]
Raises(e, msg)      == [exc |-> e, msg |-> msg, data |-> NoData, mime |-> None]
Pending             == [exc |-> "", msg |-> "", data |-> NoData, mime |-> None]

-----------------------------------------------------------------------------
(* google_nano_banana.py lines 80-105: the scan of the streamed chunks      *)
(*   chunk: [t |-> "nocand"]     no candidates                              *)
(*          [t |-> "nocontent"]  candidates[0] has no content               *)
(*          [t |-> "parts", parts |-> <<part, ...>>]                        *)
(*   part:  [inline |-> FALSE]                      text, no inline_data    *)
(*          [inline |-> TRUE, data |-> b, mime |-> m]                       *)

NoImage == [some |-> FALSE, data |-> <<>>, mime |-> None]

\* the first image part kept, later ones ignored
RECURSIVE ScanParts_FirstWins(_, _)
ScanParts_FirstWins(parts, last) ==
  IF parts = <<>> THEN last
  ELSE LET p == Head(parts) IN
       ScanParts_FirstWins(Tail(parts),
                           IF p.inline /\ p.data # <<>> /\ ~last.some
                           THEN [some |-> TRUE, data |-> p.data, mime |-> p.mime]
                           ELSE last)

\* for p in parts: if inline and inline.data: last_image_* = ...
RECURSIVE ScanParts(_, _)
ScanParts(parts, last) ==
  IF parts = <<>> THEN last
  ELSE LET p == Head(parts) IN
       ScanParts(Tail(parts),
                 IF p.inline /\ p.data # <<>>
                 THEN [some |-> TRUE, data |-> p.data, mime |-> p.mime]
                 ELSE last)

\* for chunk in stream: skip chunks without candidates/content/parts
RECURSIVE ScanChunks(_, _)
ScanChunks(stream, last) ==
  IF stream = <<>> THEN last
  ELSE LET chunk == Head(stream) IN
       ScanChunks(Tail(stream),
                  IF chunk.t # "parts" \/ chunk.parts = <<>>
                  THEN last
                  ELSE ScanParts(chunk.parts, last))

\* GoogleNanoBananaEditor.edit_image._run_sync
GoogleRunSync(installed, stream) ==
  IF ~installed THEN Raises("RuntimeError", "google-genai is not installed")
  ELSE LET last == ScanChunks(stream, NoImage) IN
       IF ~last.some
       THEN Raises("RuntimeError", "No edited image returned from Gemini stream.")
       ELSE Returns(Bytes(last.data), last.mime)

-----------------------------------------------------------------------------
(* fal_editor.py lines 85-126: candidate URLs, data URI decoding, fetch     *)
(*   result: [isdict, images, image, result]                                *)
(*   images: [t |-> "absent"] | [t |-> "other"] | [t |-> "list", items]     *)
(*   image, result, items[i]: [t |-> "absent"] | [t |-> "other"]            *)
(*                            | [t |-> "dict", url |-> u]                   *)
(*   u: a str, None (no "url" key) or NonStr (a truthy value not a str)     *)

NonStr == <<"<int>">>

Absent      == [t |-> "absent"]
Other       == [t |-> "other"]
Dict(u)     == [t |-> "dict", url |-> u]
Items(l)    == [t |-> "list", items |-> l]

\* d.get("url") when d is a dict, else nothing appended
UrlOf(d) == IF d.t = "dict" /\ Truthy(d.url) THEN <<d.url>> ELSE <<>>

\* the singular image descriptor tried before the list
CandidateUrls_ImageFirst(result) ==
  IF ~result.isdict THEN <<>>
  ELSE UrlOf(result.image)
       \o (IF result.images.t = "list" /\ result.images.items # <<>>
           THEN UrlOf(result.images.items[1]) ELSE <<>>)
       \o UrlOf(result.result)

CandidateUrls(result) ==
  IF ~result.isdict THEN <<>>
  ELSE (IF result.images.t = "list" /\ result.images.items # <<>>
        THEN UrlOf(result.images.items[1]) ELSE <<>>)
       \o UrlOf(result.image)
       \o UrlOf(result.result)

\* the data-URI branch: [ok |-> returned, data, mime]
DecodeDataUri(url) ==
  LET comma == IndexOf(url, ",") IN
  IF comma = 0 THEN [ok |-> FALSE, data |-> <<>>, mime |-> None]
  ELSE LET header == SubSeq(url, 1, comma - 1)
           b64    == DropFirst(url, comma)
           mime   == IF StartsWith(header, S_data_colon) /\ Contains(header, S_semi_base64)
                     THEN SubSeq(header, 6, IndexOf(header, ";") - 1)
                     ELSE S_image_png
           d      == b64decode(b64)
       IN [ok |-> d.ok, data |-> d.data, mime |-> mime]

NoFetch == [attempted |-> FALSE, ok |-> FALSE, content |-> <<>>, ctype |-> None]

\* whether _run_sync reaches client.get(url) for this result
ReachesFetch(result) ==
  LET urls == CandidateUrls(result) IN
  /\ urls # <<>>
  /\ urls[1] # NonStr
  /\ ~(StartsWith(urls[1], S_data_colon) /\ DecodeDataUri(urls[1]).ok)

\* everything after fal_client.subscribe returned `result`; fetch is the
\* outcome of client.get(url) + raise_for_status()
FalExtract(image_bytes, result, fetch) ==
  LET urls == CandidateUrls(result) IN
  IF urls = <<>> THEN Returns(Bytes(image_bytes[1]), None)
  ELSE LET url == urls[1] IN
       IF url = NonStr
       THEN Raises("AttributeError", "'int' object has no attribute 'startswith'")
       ELSE IF StartsWith(url, S_data_colon) /\ DecodeDataUri(url).ok
       THEN Returns(Bytes(DecodeDataUri(url).data), DecodeDataUri(url).mime)
       ELSE IF fetch.ok
       THEN Returns(Bytes(fetch.content), fetch.ctype)
       ELSE Returns(Bytes(image_bytes[1]), None)

-----------------------------------------------------------------------------
(* edit_image up to its first suspension point                              *)
(*   [spawn |-> TRUE]: the blocking call is handed to a worker thread       *)

Immediate(out) == [spawn |-> FALSE, out |-> out]
Spawn          == [spawn |-> TRUE, out |-> Pending]

\* GoogleNanoBananaEditor.edit_image: the fallback returns its argument
GoogleEditImage(editor, image_bytes) ==
  IF ~Truthy(editor.api_key) THEN Immediate(Returns(List(image_bytes), None))
  ELSE Spawn

\* FalImageEditor.edit_image
FalEditImage(editor, image_bytes) ==
  IF ~Truthy(editor.api_key) THEN Immediate(Returns(Bytes(image_bytes[1]), None))
  ELSE Spawn

\* QwenEditor.edit_image / KontextProEditor.edit_image
PlaceholderEditImage(editor) ==
  Immediate(Raises("NotImplementedError",
                   IF editor.cls = Qwen THEN "Qwen Edit provider not implemented yet."
                   ELSE "Kontext Pro provider not implemented yet."))

edit_image(editor, image_bytes) ==
  CASE editor.cls = Google -> GoogleEditImage(editor, image_bytes)
    [] editor.cls = Fal    -> FalEditImage(editor, image_bytes)
    [] OTHER               -> PlaceholderEditImage(editor)

-----------------------------------------------------------------------------
(* Bounds and input domains *)

\* the longest list of uploaded files in one request
MaxImages == 2

\* the longest stream of chunks the provider emits
MaxChunks == 3

Requests == {"r1", "r2"}

K_env_fal    == <<"e","f">>
K_env_google == <<"e","g">>
K_env_gemini == <<"e","m">>

\* the process environment at startup
Envs ==
  { [FAL_KEY |-> f, GOOGLE_API_KEY |-> g, GEMINI_API_KEY |-> m] :
      f \in {None, K_env_fal}, g \in {None, K_env_google}, m \in {None, K_env_gemini} }

D1 == <<255, 216, 255>>
D2 == <<137, 80>>

Upload(ct, d) == [content_type |-> ct, data |-> d]

\* uploaded files: two well-formed ones, and one for each way of being rejected
UploadFiles ==
  { Upload(S_image_jpeg, D1), Upload(S_image_png, D2),
    Upload(None, D1), Upload(S_text_plain, D2), Upload(S_image_jpeg, <<>>) }

ImageLists == UNION { [1..n -> UploadFiles] : n \in 1..MaxImages }

\* provider form field: absent, empty, placeholders, unknown, dynamic
ProviderNames ==
  { None, <<>>,
    <<"K","o","n","t","e","x","t">>,
    <<"q","w","e","n">>,
    <<"z","z">>,
    <<" ","F","A","L",":","f","/","Q"," ">> }

\* Authorization header: absent, "Bearer   a  ", "key b", "Bearer ", " ", "x y"
AuthHeaders ==
  { None,
    <<"B","e","a","r","e","r"," "," "," ","a"," "," ">>,
    <<"k","e","y"," ","b">>,
    <<"B","e","a","r","e","r"," ">>,
    <<" ">>,
    <<"x"," ","y">> }

U_http     == <<"h","t","t","p",":","/","/","u">>
U_data_b64 == S_data_colon \o <<"i","/","j">> \o S_semi_base64 \o <<",","Q","U","I","=">>
U_data_raw == S_data_colon \o <<"i","/","j",",","Q","Q","=","=">>
U_data_bad == S_data_colon \o <<"i","/","j">> \o S_semi_base64 \o <<",","Q">>
U_data_nocomma == S_data_colon \o <<"x">>

Urls == { None, <<>>, U_http, U_data_b64, U_data_raw, U_data_bad, U_data_nocomma, NonStr }

Descriptors == { Absent, Other } \cup { Dict(u) : u \in Urls }

\* what fal_client.subscribe may return
FalResults ==
  { [isdict |-> FALSE, images |-> Absent, image |-> Absent, result |-> Absent] }
  \cup
  { [isdict |-> TRUE, images |-> i, image |-> d, result |-> Absent] :
      i \in { Absent, Other, Items(<<>>), Items(<<Other>>), Items(<<Dict(None)>>),
              Items(<<Dict(U_http), Dict(U_data_b64)>>) },
      d \in Descriptors }
  \cup
  { [isdict |-> TRUE, images |-> Absent, image |-> d, result |-> Dict(u)] :
      d \in { Absent, Dict(None), Dict(U_data_b64) }, u \in { <<>>, U_http, U_data_raw } }

NoResult == [isdict |-> FALSE, images |-> Absent, image |-> Absent, result |-> Absent]

F1 == <<7, 7>>

\* outcomes of client.get(url): only an http(s) URL can be fetched
FetchOutcomes(result) ==
  IF ~ReachesFetch(result) THEN { NoFetch }
  ELSE { [attempted |-> TRUE, ok |-> FALSE, content |-> <<>>, ctype |-> None] }
       \cup (IF StartsWith(CandidateUrls(result)[1], <<"h","t","t","p">>)
             THEN { [attempted |-> TRUE, ok |-> TRUE, content |-> F1, ctype |-> c] :
                      c \in { None, S_image_png } }
             ELSE {})

G1 == <<1>>
G2 == <<2>>

Text         == [inline |-> FALSE, data |-> <<>>, mime |-> None]
Inline(d, m) == [inline |-> TRUE, data |-> d, mime |-> m]
Parts(ps)    == [t |-> "parts", parts |-> ps]

Chunks ==
  { [t |-> "nocand", parts |-> <<>>], [t |-> "nocontent", parts |-> <<>>],
    Parts(<<>>), Parts(<<Text>>), Parts(<<Inline(<<>>, S_image_png)>>),
    Parts(<<Inline(G1, S_image_png)>>), Parts(<<Inline(G2, None)>>),
    Parts(<<Inline(G1, S_image_png), Text>>),
    Parts(<<Inline(G2, S_image_jpeg), Inline(G1, S_image_png)>>) }

Streams == UNION { [1..n -> Chunks] : n \in 0..MaxChunks }

\* a few streams for the runs that are not about the stream
SampleStreams ==
  { <<>>, <<Parts(<<Text>>)>>, <<Parts(<<Inline(G1, S_image_png)>>)>>,
    <<Parts(<<Inline(G2, None)>>), Parts(<<Text>>)>> }

\* the inputs of the concurrent runs
OneImage == { <<Upload(S_image_jpeg, D1)>> }

ConcurrentProviders == { None, <<"f","a","l",":","m">> }

ConcurrentHeaders == { None, <<"B","e","a","r","e","r"," ","a">>, <<"k","e","y"," ","b">> }

ConcurrentResults ==
  { [isdict |-> TRUE, images |-> Items(<<Dict(U_http)>>), image |-> Absent, result |-> Absent] }

ConcurrentStreams == { <<Parts(<<Inline(G1, S_image_png)>>)>> }

-----------------------------------------------------------------------------
(* State                                                                    *)
(*   environ       os.environ, shared by every request and worker thread    *)
(*   boot_environ  os.environ as it was when the process started            *)
(*   settings      the module-level baseline, main.py line 11               *)
(*   req[r]        the locals of one in-flight call of edit_image (main.py) *)
(*     pc            idle, reading (awaiting image.read()), fal_check,      *)
(*                   fal_setenv, fal_subscribe, google_run (worker thread), *)
(*                   respond (edit_image returned or raised), done          *)
(*     calls         how many times editor.edit_image was invoked           *)
(*     outbound      how many provider calls were made for the request      *)
(*     sdk_key       the credential the provider SDK was given              *)

NoResponse == [status |-> 0, detail |-> <<>>, body |-> NoData, media_type |-> None,
               handled |-> TRUE]

HTTPException(code, detail) == [NoResponse EXCEPT !.status = code, !.detail = detail]

\* an exception that escapes the handler: the framework's plain 500
Unhandled(e) ==
  [NoResponse EXCEPT !.status = 500, !.detail = <<"Internal Server Error">>,
                     !.handled = FALSE]

IdleReq(base) ==
  [pc |-> "idle", images |-> <<>>, provider |-> None, auth_header |-> None,
   request_settings |-> base, editor |-> NoEditor, calls |-> 0,
   outbound |-> 0, sdk_key |-> None,
   got_result |-> FALSE, fal_result |-> NoResult, fetch |-> NoFetch,
   stream |-> <<>>, outcome |-> Pending, response |-> NoResponse]

Init ==
  /\ environ \in Envs
  /\ boot_environ = environ
  /\ settings = Settings(environ)
  /\ req = [r \in Requests |-> IdleReq(settings)]

\* a missing content type accepted
BadContentType_NoneAccepted(image) ==
  image.content_type # None /\ ~StartsWith(image.content_type, S_image_slash)

\* main.py lines 42-44
BadContentType(image) ==
  image.content_type = None \/ ~StartsWith(image.content_type, S_image_slash)

\* main.py lines 36-46: the request arrives; the content types are checked
\* before any file is read
Receive(r, images) ==
  /\ req[r].pc = "idle"
  /\ req' = [req EXCEPT ![r] =
       IF \E i \in 1..Len(images) : BadContentType(images[i])
       THEN [@ EXCEPT !.pc = "done", !.images = images,
               !.response = HTTPException(400, <<"Please upload valid image files.">>)]
       ELSE [@ EXCEPT !.pc = "reading", !.images = images]]
  /\ UNCHANGED <<environ, boot_environ, settings>>

\* raw_images = [await image.read() for image in images]
RawImages(images) == [i \in 1..Len(images) |-> images[i].data]

\* the thread the adapter's blocking call starts in
ThreadPc(editor) == IF editor.cls = Fal THEN "fal_check" ELSE "google_run"

\* main.py lines 47-73: from the end of the reads to the suspension inside
\* editor.edit_image (one uninterrupted run of the event loop)
Dispatch(r, provider, auth_header) ==
  /\ req[r].pc = "reading"
  /\ LET raw_images == RawImages(req[r].images)
         provider_name == Or(provider, S_google)
         request_settings == RequestSettings(settings, auth_header)
         editor == get_editor(provider_name, request_settings, environ)
         started == edit_image(editor, raw_images)
     IN req' = [req EXCEPT ![r] =
          IF \E i \in 1..Len(raw_images) : raw_images[i] = <<>>
          THEN [@ EXCEPT !.pc = "done",
                  !.response = HTTPException(400, <<"Uploaded image is empty.">>)]
          ELSE IF editor.exc # ""
          THEN [@ EXCEPT !.pc = "done", !.provider = provider, !.auth_header = auth_header,
                  !.request_settings = request_settings, !.editor = editor,
                  !.response = Unhandled(editor.exc)]
          ELSE [@ EXCEPT !.pc = IF started.spawn THEN ThreadPc(editor) ELSE "respond",
                  !.provider = provider, !.auth_header = auth_header,
                  !.request_settings = request_settings, !.editor = editor,
                  !.calls = @ + 1, !.outcome = started.out]]
  /\ UNCHANGED <<environ, boot_environ, settings>>

\* fal_editor.py lines 37-43: import fal_client, then test os.getenv("FAL_KEY")
FalCheckEnv(r, installed) ==
  /\ req[r].pc = "fal_check"
  /\ req' = [req EXCEPT ![r] =
       IF ~installed
       THEN [@ EXCEPT !.pc = "respond",
               !.outcome = Raises("RuntimeError", "fal-client is not installed")]
       ELSE IF Truthy(req[r].editor.api_key) /\ ~Truthy(GetEnv(environ, "FAL_KEY"))
       THEN [@ EXCEPT !.pc = "fal_setenv"]
       ELSE [@ EXCEPT !.pc = "fal_subscribe"]]
  /\ UNCHANGED <<environ, boot_environ, settings>>

\* fal_editor.py line 44: os.environ["FAL_KEY"] = self.api_key
FalSetEnv(r) ==
  /\ req[r].pc = "fal_setenv"
  /\ environ' = [environ EXCEPT !.FAL_KEY = req[r].editor.api_key]
  /\ req' = [req EXCEPT ![r].pc = "fal_subscribe"]
  /\ UNCHANGED <<boot_environ, settings>>

\* fal_editor.py lines 76-126: fal_client.subscribe authenticates with the
\* FAL_KEY it finds in os.environ (no key is passed to it), then the result
\* is unpacked
FalSubscribe(r, failed, result, fetch) ==
  /\ req[r].pc = "fal_subscribe"
  /\ req' = [req EXCEPT ![r] =
       IF failed
       THEN [@ EXCEPT !.pc = "respond", !.outbound = @ + 1,
               !.sdk_key = GetEnv(environ, "FAL_KEY"),
               !.outcome = Raises("RuntimeError", "FAL model invocation failed")]
       ELSE [@ EXCEPT !.pc = "respond", !.outbound = @ + 1,
               !.sdk_key = GetEnv(environ, "FAL_KEY"),
               !.got_result = TRUE, !.fal_result = result, !.fetch = fetch,
               !.outcome = FalExtract(RawImages(req[r].images), result, fetch)]]
  /\ UNCHANGED <<environ, boot_environ, settings>>

\* google_nano_banana.py lines 53-105: genai.Client(api_key=self.api_key)
GoogleRun(r, installed, stream) ==
  /\ req[r].pc = "google_run"
  /\ req' = [req EXCEPT ![r] =
       IF ~installed
       THEN [@ EXCEPT !.pc = "respond", !.outcome = GoogleRunSync(FALSE, <<>>)]
       ELSE [@ EXCEPT !.pc = "respond", !.outbound = @ + 1,
               !.sdk_key = req[r].editor.api_key, !.stream = stream,
               !.outcome = GoogleRunSync(TRUE, stream)]]
  /\ UNCHANGED <<environ, boot_environ, settings>>

\* main.py lines 72-82: the outcome of the awaited call becomes the response
ResponseOf(images, outcome) ==
  IF outcome.exc = "NotImplementedError"
  THEN HTTPException(501, <<outcome.msg>>)
  ELSE IF outcome.exc # ""
  THEN HTTPException(500, <<"Editing failed: ", outcome.msg>>)
  ELSE [NoResponse EXCEPT !.status = 200, !.body = outcome.data,
          !.media_type = Or(outcome.mime, images[1].content_type)]

Respond(r) ==
  /\ req[r].pc = "respond"
  /\ req' = [req EXCEPT ![r] =
       [@ EXCEPT !.pc = "done", !.response = ResponseOf(req[r].images, req[r].outcome)]]
  /\ UNCHANGED <<environ, boot_environ, settings>>

\* the connection is finished; the next request starts from fresh locals
Close(r) ==
  /\ req[r].pc = "done"
  /\ req' = [req EXCEPT ![r] = IdleReq(settings)]
  /\ UNCHANGED <<environ, boot_environ, settings>>

\* one step of request r, its inputs and the providers' answers drawn from
\* the given sets
Serve(r, lists, providers, headers, results, streams) ==
  \/ \E images \in lists : Receive(r, images)
  \/ \E provider \in providers, auth_header \in headers :
       Dispatch(r, provider, auth_header)
  \/ \E installed \in BOOLEAN : FalCheckEnv(r, installed)
  \/ FalSetEnv(r)
  \/ \E result \in results : \E fetch \in FetchOutcomes(result) :
       FalSubscribe(r, FALSE, result, fetch)
  \/ FalSubscribe(r, TRUE, NoResult, NoFetch)
  \/ \E installed \in BOOLEAN, stream \in streams : GoogleRun(r, installed, stream)
  \/ Respond(r)
  \/ Close(r)

\* requests served one after the other, every input
Next == Serve("r1", ImageLists, ProviderNames, AuthHeaders, FalResults, SampleStreams)

Spec == Init /\ [][Next]_vars

\* two requests in flight at once: the event loop interleaves their handler
\* segments and their worker threads
NextConcurrent ==
  \E r \in Requests :
    Serve(r, OneImage, ConcurrentProviders, ConcurrentHeaders, ConcurrentResults,
          ConcurrentStreams)

SpecConcurrent == Init /\ [][NextConcurrent]_vars

\* the default provider with its key configured, every stream
NextStream ==
  \/ \E images \in OneImage : Receive("r1", images)
  \/ Dispatch("r1", None, None)
  \/ \E stream \in Streams : GoogleRun("r1", TRUE, stream)
  \/ Respond("r1")
  \/ Close("r1")

SpecStream == Init /\ [][NextStream]_vars

-----------------------------------------------------------------------------
(* Vocabulary of the properties *)

Msg_BadType == <<"Please upload valid image files.">>
Msg_Empty   == <<"Uploaded image is empty.">>

\* get_editor was called for the request
Resolved(r) == req[r].editor # NoEditor

\* the override token the handler derived for the request, None without one
OverrideToken(r) ==
  IF HasAttr(req[r].request_settings, "fal_key") THEN req[r].request_settings.fal_key
  ELSE None

\* the identifier names a dynamic fal: provider
IsFalName(provider) == StartsWith(Lower(Strip(Or(provider, S_google))), S_fal_colon)

\* the upload declares an image content type
DeclaresImage(image) ==
  image.content_type # None /\ StartsWith(image.content_type, S_image_slash)

\* the response echoes the first uploaded file
EchoesFirstUpload(r) ==
  /\ req[r].response.status = 200
  /\ req[r].response.body.t = "bytes"
  /\ req[r].response.body.v = req[r].images[1].data
  /\ req[r].response.media_type = req[r].images[1].content_type

-----------------------------------------------------------------------------
\* C1: no outbound provider call of one request is made with the token that
\* another in-flight request supplied (unless it supplied the same token).
C1_NoForeignToken ==
  \A r \in Requests : \A q \in Requests \ {r} :
    (/\ req[r].outbound > 0
     /\ Truthy(OverrideToken(q))
     /\ req[r].sdk_key = OverrideToken(q))
    => OverrideToken(r) = OverrideToken(q)

\* C2: a validated request whose provider is "kontext" or "qwen" (any letter
\* case) resolves to a placeholder adapter and ends with status 501.
C2_PlaceholderGives501 ==
  \A r \in Requests :
    (/\ req[r].pc = "done"
     /\ Resolved(r)
     /\ Lower(Strip(req[r].provider)) \in { <<"k","o","n","t","e","x","t">>, <<"q","w","e","n">> })
    => /\ req[r].editor.cls \in { Qwen, Kontext }
       /\ req[r].response.status = 501

\* the request supplied no token and neither the baseline nor the environment
\* holds a key for the provider family it names
NoKeyAnywhere(r) ==
  /\ ~Truthy(OverrideToken(r))
  /\ IF IsFalName(req[r].provider)
     THEN ~Truthy(GetEnv(boot_environ, "FAL_KEY"))
     ELSE /\ ~Truthy(settings.google_api_key)
          /\ ~Truthy(GetEnv(boot_environ, "GOOGLE_API_KEY"))
          /\ ~Truthy(GetEnv(boot_environ, "GEMINI_API_KEY"))

\* C3: a validated request whose adapter has no API key is answered with the
\* first uploaded file, byte for byte, under that file's declared content type.
C3_FallbackEchoesFirst ==
  \A r \in Requests :
    (req[r].pc = "done" /\ Resolved(r) /\ NoKeyAnywhere(r)) => EchoesFirstUpload(r)

\* C4: a request with a file of missing or non-image content type, or with an
\* empty file, ends with status 400 and never resolves, constructs or invokes
\* an adapter; a bad content type is decided before any file is read, and its
\* message wins over the emptiness message.
C4_InvalidUploadsRejected ==
  \A r \in Requests :
    LET q == req[r]
        badtype == \E i \in 1..Len(q.images) : ~DeclaresImage(q.images[i])
        empty == \E i \in 1..Len(q.images) : q.images[i].data = <<>>
    IN (q.images # <<>> /\ (badtype \/ empty)) =>
         /\ q.pc \in {"reading", "done"}
         /\ badtype => q.pc = "done"
         /\ q.editor = NoEditor /\ q.calls = 0 /\ q.outbound = 0
         /\ q.pc = "done" =>
              /\ q.response.status = 400
              /\ q.response.detail = IF badtype THEN Msg_BadType ELSE Msg_Empty

\* an empty first file with an image content type, followed by a file of a
\* non-image content type: rejected for the content type
C4_Witness ==
  \E r \in Requests :
    /\ req[r].pc = "done"
    /\ Len(req[r].images) = 2
    /\ DeclaresImage(req[r].images[1]) /\ req[r].images[1].data = <<>>
    /\ ~DeclaresImage(req[r].images[2])
    /\ req[r].response.status = 400
    /\ req[r].response.detail = Msg_BadType

\* C5: for an identifier that is no fal: name and no key of the static table
\* (missing and empty included), get_editor returns a default-provider
\* adapter and raises nothing, whatever the effective configuration.
C5_UnknownResolvesToDefault ==
  \A r \in Requests :
    (/\ Resolved(r)
     /\ ~IsFalName(req[r].provider)
     /\ (~Truthy(req[r].provider) \/ Lower(Strip(req[r].provider)) \notin DOMAIN PROVIDERS))
    => /\ req[r].editor.exc = ""
       /\ req[r].editor.cls = Google

\* the token as spec.md 4.5 derives it: strip one leading scheme, then trim
ClaimedToken(h) ==
  Strip(IF StartsWith(Lower(h), S_bearer_sp) THEN DropFirst(h, Len(S_bearer_sp))
        ELSE IF StartsWith(Lower(h), S_key_sp) THEN DropFirst(h, Len(S_key_sp))
        ELSE h)

ClaimedSettings(base, h) ==
  IF h = None \/ ClaimedToken(h) = <<>> THEN base
  ELSE ModelCopy(base, "fal_key", ClaimedToken(h))

\* C6: the effective configuration is the baseline with the override set to
\* the header's token (scheme stripped, trimmed) when that token is non-empty,
\* and the baseline unchanged when nothing remains after the scheme.
C6_OverrideFromHeader ==
  \A r \in Requests :
    Resolved(r) => req[r].request_settings = ClaimedSettings(settings, req[r].auth_header)

\* the key in the order of spec.md 4.3: override token, baseline, environment
FirstPresentKey(r) ==
  IF IsFalName(req[r].provider)
  THEN Or(OverrideToken(r), GetEnv(boot_environ, "FAL_KEY"))
  ELSE Or(OverrideToken(r),
          Or(settings.google_api_key,
             Or(GetEnv(boot_environ, "GOOGLE_API_KEY"), GetEnv(boot_environ, "GEMINI_API_KEY"))))

\* C7: every adapter is constructed, its API key being the first present of
\* override token, baseline, environment; with none of them the request takes
\* the degraded fallback instead of failing.
C7_ApiKeyOrder ==
  \A r \in Requests :
    Resolved(r) =>
      /\ req[r].editor.exc = ""
      /\ req[r].editor.api_key = FirstPresentKey(r)
      /\ (req[r].pc = "done" /\ NoKeyAnywhere(r)) => req[r].response.status = 200

\* C8: a request that passed validation invoked edit_image exactly once, and
\* its status is 200 for a returned result, 501 for NotSupported, and 500
\* carrying the error's message for any other error of resolving or running.
C8_OneAttemptOneStatus ==
  \A r \in Requests :
    (req[r].pc = "done" /\ Resolved(r)) =>
      /\ req[r].calls = 1
      /\ req[r].editor.exc = ""
      /\ CASE req[r].outcome.exc = "" ->
                req[r].response.status = 200 /\ req[r].response.body = req[r].outcome.data
           [] req[r].outcome.exc = "NotImplementedError" ->
                req[r].response.status = 501
           [] OTHER ->
                /\ req[r].response.status = 500
                /\ req[r].response.detail = <<"Editing failed: ", req[r].outcome.msg>>

-----------------------------------------------------------------------------
(* C9: the generic-broker adapter after the remote job returned *)

\* the URL a descriptor offers, None when it offers none
OfferedUrl(d) == IF d.t = "dict" /\ Truthy(d.url) THEN d.url ELSE None

\* the candidates in the order images[0].url, image.url, result.url
Offers(result) ==
  IF ~result.isdict THEN <<None, None, None>>
  ELSE << IF result.images.t = "list" /\ Len(result.images.items) > 0
          THEN OfferedUrl(result.images.items[1]) ELSE None,
          OfferedUrl(result.image),
          OfferedUrl(result.result) >>

\* the first of them that exists
FirstOffer(result) ==
  LET o == Offers(result) IN
  IF \A k \in 1..3 : o[k] = None THEN None
  ELSE o[CHOOSE k \in 1..3 : o[k] # None /\ \A j \in 1..(k - 1) : o[j] = None]

IsDataUri(u) == u # NonStr /\ StartsWith(u, S_data_colon)

\* the payload after the first comma decodes as base64
PayloadDecodes(u) == IndexOf(u, ",") > 0 /\ b64decode(DropFirst(u, IndexOf(u, ","))).ok

Payload(u) == b64decode(DropFirst(u, IndexOf(u, ","))).data

\* the media type a data URI states: what stands between "data:" and the
\* first ";" or ","
StatedMime(u) ==
  LET stop == IF IndexOf(u, ";") > 0 /\ IndexOf(u, ";") < IndexOf(u, ",")
              THEN IndexOf(u, ";") ELSE IndexOf(u, ",")
  IN SubSeq(u, Len(S_data_colon) + 1, stop - 1)

\* the mime the adapter returns for a data URI: the stated one when the
\* header says ";base64", image/png otherwise
ReturnedMime(u) ==
  IF Contains(SubSeq(u, 1, IndexOf(u, ",") - 1), S_semi_base64)
  THEN StatedMime(u) ELSE S_image_png

EchoFirst(r) == Returns(Bytes(req[r].images[1].data), None)

\* the result of edit_image for request r; a data URI's mime is the stated
\* one (stated = TRUE) or the one the adapter returns
AfterResult(r, stated) ==
  LET u == FirstOffer(req[r].fal_result) IN
  IF u = None THEN EchoFirst(r)
  ELSE IF IsDataUri(u) /\ PayloadDecodes(u) THEN Returns(Bytes(Payload(u)), IF stated THEN StatedMime(u) ELSE ReturnedMime(u))
  ELSE IF req[r].fetch.ok THEN Returns(Bytes(req[r].fetch.content), req[r].fetch.ctype)
  ELSE EchoFirst(r)

-----------------------------------------------------------------------------
(* C10: the default-provider adapter's scan of the stream *)

\* the places <<chunk, part>> of the stream that carry inline image data
ImagePlaces(stream) ==
  UNION { { <<i, j>> : j \in { k \in 1..Len(stream[i].parts) :
                                 /\ stream[i].parts[k].inline
                                 /\ stream[i].parts[k].data # <<>> } } :
          i \in { n \in 1..Len(stream) : stream[n].t = "parts" } }

Before(p, q) == p[1] < q[1] \/ (p[1] = q[1] /\ p[2] < q[2])

LastPlace(stream) ==
  CHOOSE p \in ImagePlaces(stream) : \A q \in ImagePlaces(stream) \ {p} : Before(q, p)

PartAt(stream, p) == stream[p[1]].parts[p[2]]

\* the request ran the streamed call of the default-provider adapter
Streamed(r) ==
  req[r].pc \in {"respond", "done"} /\ req[r].editor.cls = Google /\ req[r].outbound = 1

====
